---- MODULE Spec2Model ----
(***************************************************************************)
(* The two PDF-indexing drivers of the repository, src/main.py and         *)
(* src/new_script.py, as state machines.  Each driver is a sequential      *)
(* program whose only branching comes from what its collaborators          *)
(* (verify_poppler_setup, PDFProcessor, ModelHandler, VespaHandler) return *)
(* or raise.  One action is one collaborator call together with the        *)
(* control flow of the driver up to its next call.                         *)
(*                                                                         *)
(* The collaborators are the environment: `env` remembers what each call   *)
(* answered (the setup calls, the four calls made for each descriptor, the *)
(* query embedding and the search), so two drivers run against the same    *)
(* environment get the same answer to the same call.                       *)
(***************************************************************************)
EXTENDS Integers, Sequences, FiniteSets, TLC

VARIABLES
    runs,          \* the drivers that are run in this behaviour
    SAMPLE_PDFS,   \* src.config.SAMPLE_PDFS: the configured descriptors
    env,           \* what the collaborators answered, per call and argument
    st             \* st[s]: the locals, output and exit state of driver s

vars == <<runs, SAMPLE_PDFS, env, st>>

\* Most descriptors in SAMPLE_PDFS.
MaxPdfs == 2
\* Longest sequence a collaborator returns (pages, texts or vectors).
MaxPages == 1
\* The lengths of the sequences a collaborator returns: none, or the most.
Lengths == {0, MaxPages}

Scripts == {"main", "new_script"}

query == "Composition of the LoTTE benchmark"

\* A descriptor {title, url}; the k-th configured one.
Descriptor(k) == [title |-> k, url |-> k]

\* The k-th page of the PDF at url, as an image or as text.
Page(kind, url, k) == kind \o ToString(url) \o "." \o ToString(k)

Images(url, n) == [k \in 1..n |-> Page("img", url, k)]
Texts(url, n) == [k \in 1..n |-> Page("txt", url, k)]
\* The k-th vector the model returns for the list `inputs`.
Embeddings(inputs, n) == [k \in 1..n |-> [of |-> inputs, k |-> k]]

----------------------------------------------------------------------------
(* The collaborators' possible answers. *)

\* verify_poppler_setup() returns True or False.
PopplerChoices == BOOLEAN

\* PDFProcessor(), ModelHandler(), VespaHandler(), deploy(), index_documents(),
\* search(): TRUE is a normal return, FALSE a raised exception.
ReturnOrRaise == BOOLEAN

\* get_pdf_images(url): raises, or returns (images, texts) of any lengths.
ExtractChoices(url) ==
    {[raised |-> TRUE, images |-> <<>>, texts |-> <<>>]} \cup
    {[raised |-> FALSE, images |-> Images(url, ni), texts |-> Texts(url, nt)] :
        ni \in Lengths, nt \in Lengths}

\* generate_embeddings(inputs): raises, or returns a list of vectors of any
\* length.
EmbedChoices(inputs) ==
    {[raised |-> TRUE, vectors |-> <<>>]} \cup
    {[raised |-> FALSE, vectors |-> Embeddings(inputs, n)] : n \in Lengths}

\* prepare_document(doc): the engine's representation of doc.
VespaDoc(doc) == [fields |-> doc]

NoAnswers == [x \in {} |-> TRUE]

\* The answers a call may get: the remembered one, or any.
Answer(memo, key, choices) ==
    IF key \in DOMAIN memo THEN {memo[key]} ELSE choices

Remember(memo, key, out) ==
    IF key \in DOMAIN memo THEN memo ELSE memo @@ (key :> out)

----------------------------------------------------------------------------
(* The drivers' control flow, as functions on a driver's state record. *)

Called(r, op, arg, ret) == [r EXCEPT !.calls = Append(@, <<op, arg, ret>>)]

\* The error messages a driver logs (new_script.py) or prints (main.py); the
\* title is 0 for a message that names no descriptor.
Logged(r, msg, title) == [r EXCEPT !.log = Append(@, <<msg, title>>)]

\* Mutant of Exit1: the failure is reported but the process is not ended.
Exit1_FallsThrough(r) == [r EXCEPT !.pc = "handlers", !.exit_status = 1]

\* exit(1): SystemExit passes `except Exception` and ends the process.
Exit1(r) == [r EXCEPT !.pc = "done", !.exit_status = 1]

\* main() returns normally; the interpreter exits with status 0.
Return0(r) == [r EXCEPT !.pc = "done", !.exit_status = 0]

CriticalMessage(s) ==
    IF s = "new_script" THEN "Critical error occurred" ELSE "Error occurred"

\* Mutant of Propagate: the handler logs and does not re-raise.
Propagate_Swallowed(s, r) ==
    [Logged(r, "Critical error occurred", 0) EXCEPT
        !.pc = "done", !.exit_status = 0]

\* `except Exception as e: ...; raise` of main(): the exception leaves main()
\* and the interpreter exits with status 1.
Propagate(s, r) ==
    [Logged(r, CriticalMessage(s), 0) EXCEPT
        !.pc = "done", !.exit_status = 1, !.raised = TRUE]

\* Mutant of SkipsFailedPdfs: no driver catches the failure of a descriptor.
SkipsFailedPdfs_Never(s) == FALSE

\* Does the driver catch a failure of one descriptor and continue?
SkipsFailedPdfs(s) == s = "new_script"

\* Mutant of ExitsOnEmpty: the check is missing.
ExitsOnEmpty_Never(s, processed_pdfs) == FALSE

\* Mutant of ExitsOnEmpty: the test is inverted.
ExitsOnEmpty_Inverted(s, processed_pdfs) ==
    s = "new_script" /\ processed_pdfs # <<>>

\* if not processed_pdfs: exit(1)
ExitsOnEmpty(s, processed_pdfs) == s = "new_script" /\ processed_pdfs = <<>>

\* After the processing loop has dealt with descriptor r.i - 1.
AfterItem(s, r) ==
    IF r.i <= Len(SAMPLE_PDFS) THEN [r EXCEPT !.pc = "extract"]
    ELSE IF ExitsOnEmpty(s, r.processed_pdfs)
         THEN Exit1(Logged(r, "No PDFs were successfully processed. Exiting.", 0))
    ELSE IF r.processed_pdfs = <<>> THEN [r EXCEPT !.pc = "query_embed"]
    ELSE [r EXCEPT !.pc = "prepare", !.j = 1]

\* get_pdf_images or generate_embeddings raised for descriptor pdf.
ItemFailed(s, r, pdf) ==
    IF SkipsFailedPdfs(s)
    THEN AfterItem(s,
            [Logged(Logged(r, "Error processing PDF", pdf.title),
                    "Failed to process PDF", pdf.title)
                EXCEPT !.i = @ + 1])
    ELSE Propagate(s, r)

\* processed_pdf = pdf.copy(); processed_pdf.update({...})
ProcessedPdf(pdf, images, texts, embeddings) ==
    [title |-> pdf.title, url |-> pdf.url,
     images |-> images, texts |-> texts, embeddings |-> embeddings]

\* processed_pdfs.append(processed_pdf), and on to the next descriptor.
ItemDone(s, r, doc) ==
    AfterItem(s, [r EXCEPT !.processed_pdfs = Append(@, doc), !.i = @ + 1])

\* index_documents([vespa_doc]) returned for the j-th document.
AfterSubmit(s, r) ==
    IF r.j < Len(r.processed_pdfs)
    THEN [r EXCEPT !.pc = "prepare", !.j = @ + 1]
    ELSE [r EXCEPT !.pc = "query_embed", !.j = @ + 1]

\* Mutant of IndexFailed: the failure is logged and the loop goes on.
IndexFailed_Tolerant(s, r, doc) ==
    AfterSubmit(s, Logged(r, "Error indexing PDF", doc.title))

\* prepare_document or index_documents raised for the j-th document.
IndexFailed(s, r, doc) ==
    IF s = "new_script"
    THEN Propagate(s, Logged(r, "Error indexing PDF", doc.title))
    ELSE Propagate(s, r)

\* generate_embeddings([query]) or search raised.
SearchFailed(s, r) ==
    IF s = "new_script"
    THEN Propagate(s, Logged(r, "Error during sample search", 0))
    ELSE Propagate(s, r)

\* Mutant of Batch: every document prepared so far is submitted again.
Batch_Accumulated(r) == [k \in 1..r.j |-> VespaDoc(r.processed_pdfs[k])]

\* The argument of vespa_handler.index_documents.
Batch(r) == <<r.vespa_doc>>

\* Mutant of SearchArgs: the whole list is passed, not its first element.
SearchArgs_WholeList(vectors) == <<query, vectors>>

\* The arguments of vespa_handler.search.
SearchArgs(vectors) == <<query, vectors[1]>>

----------------------------------------------------------------------------

InitState ==
    [pc |-> "precheck", i |-> 0, j |-> 0,
     images |-> <<>>, texts |-> <<>>,
     processed_pdfs |-> <<>>, vespa_doc |-> <<>>, query_embedding |-> <<>>,
     calls |-> <<>>, indexed |-> <<>>, log |-> <<>>,
     exit_status |-> -1, raised |-> FALSE]

InitEnv ==
    [setup |-> NoAnswers, extract |-> NoAnswers, embed |-> NoAnswers,
     prepare |-> NoAnswers, submit |-> NoAnswers,
     query_embed |-> NoAnswers, search |-> NoAnswers]

InitCommon ==
    /\ SAMPLE_PDFS \in {[k \in 1..n |-> Descriptor(k)] : n \in 0..MaxPdfs}
    /\ env = InitEnv
    /\ st = [s \in Scripts |-> InitState]

\* One driver is run.
Init == InitCommon /\ runs \in {{s} : s \in Scripts}

\* if not verify_poppler_setup(): exit(1)
VerifyPoppler(s) ==
    /\ st[s].pc = "precheck"
    /\ \E ok \in Answer(env.setup, "verify_poppler_setup", PopplerChoices) :
        /\ env' = [env EXCEPT !.setup = Remember(@, "verify_poppler_setup", ok)]
        /\ LET r == Called(st[s], "verify_poppler_setup", <<>>, ok)
           IN st' = [st EXCEPT ![s] =
                IF ok THEN [r EXCEPT !.pc = "handlers"]
                ELSE Exit1(Logged(r, "Poppler setup verification failed", 0))]
    /\ UNCHANGED <<runs, SAMPLE_PDFS>>

\* pdf_processor = PDFProcessor(); model_handler = ModelHandler();
\* vespa_handler = VespaHandler()
InitHandlers(s) ==
    /\ st[s].pc = "handlers"
    /\ \E ok \in Answer(env.setup, "handlers", ReturnOrRaise) :
        /\ env' = [env EXCEPT !.setup = Remember(@, "handlers", ok)]
        /\ LET r == Called(st[s], "handlers", <<>>, ok)
           IN st' = [st EXCEPT ![s] =
                IF ok THEN [r EXCEPT !.pc = "deploy"] ELSE Propagate(s, r)]
    /\ UNCHANGED <<runs, SAMPLE_PDFS>>

\* vespa_handler.deploy(); processed_pdfs = []; for pdf in SAMPLE_PDFS
Deploy(s) ==
    /\ st[s].pc = "deploy"
    /\ \E ok \in Answer(env.setup, "deploy", ReturnOrRaise) :
        /\ env' = [env EXCEPT !.setup = Remember(@, "deploy", ok)]
        /\ LET r == Called(st[s], "deploy", <<>>, ok)
           IN st' = [st EXCEPT ![s] =
                IF ok THEN AfterItem(s, [r EXCEPT !.i = 1])
                ELSE Propagate(s, r)]
    /\ UNCHANGED <<runs, SAMPLE_PDFS>>

\* images, texts = pdf_processor.get_pdf_images(pdf["url"])
GetPdfImages(s) ==
    /\ st[s].pc = "extract"
    /\ LET pdf == SAMPLE_PDFS[st[s].i]
       IN \E out \in Answer(env.extract, pdf.url, ExtractChoices(pdf.url)) :
            /\ env' = [env EXCEPT !.extract = Remember(@, pdf.url, out)]
            /\ LET r == Called(st[s], "get_pdf_images", pdf.url, out)
               IN st' = [st EXCEPT ![s] =
                    IF out.raised THEN ItemFailed(s, r, pdf)
                    ELSE [r EXCEPT !.pc = "embed",
                                   !.images = out.images, !.texts = out.texts]]
    /\ UNCHANGED <<runs, SAMPLE_PDFS>>

\* embeddings = model_handler.generate_embeddings(images), then the merge
\* and processed_pdfs.append
GenerateEmbeddings(s) ==
    /\ st[s].pc = "embed"
    /\ LET pdf == SAMPLE_PDFS[st[s].i]
           images == st[s].images
       IN \E out \in Answer(env.embed, pdf.url, EmbedChoices(images)) :
            /\ env' = [env EXCEPT !.embed = Remember(@, pdf.url, out)]
            /\ LET r == Called(st[s], "generate_embeddings", images, out)
               IN st' = [st EXCEPT ![s] =
                    IF out.raised THEN ItemFailed(s, r, pdf)
                    ELSE ItemDone(s, r,
                            ProcessedPdf(pdf, images, st[s].texts, out.vectors))]
    /\ UNCHANGED <<runs, SAMPLE_PDFS>>

\* vespa_doc = vespa_handler.prepare_document(pdf)
PrepareDocument(s) ==
    /\ st[s].pc = "prepare"
    /\ LET doc == st[s].processed_pdfs[st[s].j]
       IN \E ok \in Answer(env.prepare, doc.url, ReturnOrRaise) :
            /\ env' = [env EXCEPT !.prepare = Remember(@, doc.url, ok)]
            /\ LET r == Called(st[s], "prepare_document", doc, ok)
               IN st' = [st EXCEPT ![s] =
                    IF ok THEN [r EXCEPT !.pc = "submit", !.vespa_doc = VespaDoc(doc)]
                    ELSE IndexFailed(s, r, doc)]
    /\ UNCHANGED <<runs, SAMPLE_PDFS>>

\* vespa_handler.index_documents([vespa_doc])
IndexDocuments(s) ==
    /\ st[s].pc = "submit"
    /\ LET doc == st[s].processed_pdfs[st[s].j]
           batch == Batch(st[s])
       IN \E ok \in Answer(env.submit, doc.url, ReturnOrRaise) :
            /\ env' = [env EXCEPT !.submit = Remember(@, doc.url, ok)]
            /\ LET r == Called(st[s], "index_documents", batch, ok)
               IN st' = [st EXCEPT ![s] =
                    IF ok THEN AfterSubmit(s, [r EXCEPT !.indexed = @ \o batch])
                    ELSE IndexFailed(s, r, doc)]
    /\ UNCHANGED <<runs, SAMPLE_PDFS>>

\* query_embedding = model_handler.generate_embeddings([query])[0]
QueryEmbedding(s) ==
    /\ st[s].pc = "query_embed"
    /\ \E out \in Answer(env.query_embed, query, EmbedChoices(<<query>>)) :
        /\ env' = [env EXCEPT !.query_embed = Remember(@, query, out)]
        /\ LET r == Called(st[s], "generate_embeddings", <<query>>, out)
           IN st' = [st EXCEPT ![s] =
                \* [0] of an empty list raises IndexError
                IF out.raised \/ out.vectors = <<>> THEN SearchFailed(s, r)
                ELSE [r EXCEPT !.pc = "search", !.query_embedding = out.vectors]]
    /\ UNCHANGED <<runs, SAMPLE_PDFS>>

\* search_results = vespa_handler.search(query, query_embedding)
Search(s) ==
    /\ st[s].pc = "search"
    /\ LET args == SearchArgs(st[s].query_embedding)
       IN \E ok \in Answer(env.search, query, ReturnOrRaise) :
            /\ env' = [env EXCEPT !.search = Remember(@, query, ok)]
            /\ LET r == Called(st[s], "search", args, ok)
               IN st' = [st EXCEPT ![s] =
                    IF ok THEN Return0(r) ELSE SearchFailed(s, r)]
    /\ UNCHANGED <<runs, SAMPLE_PDFS>>

Next ==
    \/ \E s \in runs : VerifyPoppler(s)
    \/ \E s \in runs : InitHandlers(s)
    \/ \E s \in runs : Deploy(s)
    \/ \E s \in runs : GetPdfImages(s)
    \/ \E s \in runs : GenerateEmbeddings(s)
    \/ \E s \in runs : PrepareDocument(s)
    \/ \E s \in runs : IndexDocuments(s)
    \/ \E s \in runs : QueryEmbedding(s)
    \/ \E s \in runs : Search(s)

Spec == Init /\ [][Next]_vars

\* Both drivers are run, against the same environment.
InitPair == InitCommon /\ runs = Scripts

SpecPair == InitPair /\ [][Next]_vars

----------------------------------------------------------------------------
(* Reading a driver's state. *)

Done(s) == st[s].pc = "done"

\* The processing loop has gone through every descriptor.
LoopEnded(s) == st[s].i > Len(SAMPLE_PDFS)

Op(c) == c[1]
Arg(c) == c[2]
Ret(c) == c[3]

CallsOf(s, ops) == SelectSeq(st[s].calls, LAMBDA c : Op(c) \in ops)

IsQueryEmbedding(c) == Op(c) = "generate_embeddings" /\ Arg(c) = <<query>>

\* Calls of the indexing and search phases.
IsLateCall(c) ==
    \/ Op(c) \in {"prepare_document", "index_documents", "search"}
    \/ IsQueryEmbedding(c)

\* Extraction and embedding both returned for pdf.
Succeeded(pdf) ==
    /\ pdf.url \in DOMAIN env.extract /\ ~env.extract[pdf.url].raised
    /\ pdf.url \in DOMAIN env.embed /\ ~env.embed[pdf.url].raised

\* The document the collaborators' answers for pdf make.
DocOf(pdf) ==
    ProcessedPdf(pdf, env.extract[pdf.url].images, env.extract[pdf.url].texts,
                 env.embed[pdf.url].vectors)

DocsOf(pdfs) ==
    LET good == SelectSeq(pdfs, Succeeded)
    IN [k \in 1..Len(good) |-> DocOf(good[k])]

\* The descriptors the loop has dealt with.
Attempted(s) == SubSeq(SAMPLE_PDFS, 1, st[s].i - 1)

LoggedFor(s, msg, title) ==
    \E m \in 1..Len(st[s].log) : st[s].log[m] = <<msg, title>>

----------------------------------------------------------------------------
(* The claims. *)

\* C1: in new_script.py a descriptor whose extraction or embedding raises is
\* logged and skipped and never ends the run: every descriptor is attempted,
\* in list order, and processed_pdfs holds exactly the documents of the
\* descriptors dealt with so far for which both calls returned, each once and
\* in list order.
C1_FailedPdfIsSkipped ==
    \A s \in runs : s = "new_script" =>
        /\ st[s].processed_pdfs = DocsOf(Attempted(s))
        /\ \A k \in 1..Len(Attempted(s)) :
              ~Succeeded(SAMPLE_PDFS[k]) =>
                 LoggedFor(s, "Failed to process PDF", SAMPLE_PDFS[k].title)
        /\ LET got == CallsOf(s, {"get_pdf_images"})
           IN \A k \in 1..Len(got) : Arg(got[k]) = SAMPLE_PDFS[k].url
        /\ (Done(s) /\ st[s].i >= 1) => LoopEnded(s)

\* The first of two descriptors failed and the second was processed.
C1_Witness ==
    /\ "new_script" \in runs
    /\ Len(SAMPLE_PDFS) = 2
    /\ LoopEnded("new_script")
    /\ ~Succeeded(SAMPLE_PDFS[1])
    /\ Len(st["new_script"].processed_pdfs) = 1
    /\ st["new_script"].processed_pdfs[1].title = SAMPLE_PDFS[2].title

\* C2: in new_script.py, when the loop ends with nothing processed (every
\* descriptor failed, or there is none) the process has ended with exit
\* status 1 and has made no prepare_document, index_documents,
\* query-embedding or search call.
C2_EmptyExitsBeforeIndexing ==
    \A s \in runs :
        (s = "new_script" /\ LoopEnded(s) /\ st[s].processed_pdfs = <<>>) =>
            /\ Done(s)
            /\ st[s].exit_status = 1
            /\ \A k \in 1..Len(st[s].calls) : ~IsLateCall(st[s].calls[k])
            /\ st[s].indexed = <<>>

\* Both of two descriptors failed.
C2_Witness ==
    /\ "new_script" \in runs
    /\ Len(SAMPLE_PDFS) = 2
    /\ LoopEnded("new_script")
    /\ st["new_script"].processed_pdfs = <<>>

\* A prepare_document or index_documents call that raised.
IsIndexFailure(c) ==
    Op(c) \in {"prepare_document", "index_documents"} /\ ~Ret(c)

\* The engine's documents for the first n processed documents.
VespaDocs(s, n) == [k \in 1..n |-> VespaDoc(st[s].processed_pdfs[k])]

\* C3: when prepare_document or index_documents raises for the k-th
\* processed document, it is the driver's last call (no later document is
\* prepared or submitted and the search is not invoked), the documents
\* submitted before it are still the index's content, and the error leaves
\* main.
C3_IndexFailureAborts ==
    \A s \in runs : \A k \in 1..Len(st[s].calls) :
        IsIndexFailure(st[s].calls[k]) =>
            /\ k = Len(st[s].calls)
            /\ Done(s) /\ st[s].raised /\ st[s].exit_status = 1
            /\ st[s].indexed = VespaDocs(s, st[s].j - 1)

\* new_script.py: the second document's submission raised after the first
\* was submitted.
C3_Witness ==
    /\ "new_script" \in runs
    /\ st["new_script"].j = 2
    /\ Len(st["new_script"].indexed) = 1
    /\ Len(st["new_script"].calls) > 0
    /\ LET c == st["new_script"].calls[Len(st["new_script"].calls)]
       IN Op(c) = "index_documents" /\ ~Ret(c)

EqualLengths(doc) ==
    /\ Len(doc.images) = Len(doc.texts)
    /\ Len(doc.texts) = Len(doc.embeddings)

\* C4: every document passed to prepare_document or index_documents has
\* images, texts and embeddings of one length.
C4_IndexedLengthsAgree ==
    \A s \in runs : \A k \in 1..Len(st[s].calls) :
        LET c == st[s].calls[k]
        IN /\ Op(c) = "prepare_document" => EqualLengths(Arg(c))
           /\ Op(c) = "index_documents" =>
                \A m \in 1..Len(Arg(c)) : EqualLengths(Arg(c)[m].fields)

\* A call that ends the run when it fails: anything but the extraction and
\* embedding of a descriptor.
IsFatal(s, c) ==
    \/ Op(c) \in {"verify_poppler_setup", "handlers", "deploy",
                  "prepare_document", "index_documents", "search"} /\ ~Ret(c)
    \/ IsQueryEmbedding(c) /\ (Ret(c).raised \/ Ret(c).vectors = <<>>)

NoFatalCall(s) ==
    \A k \in 1..Len(st[s].calls) : ~IsFatal(s, st[s].calls[k])

\* C5: new_script.py ends with exit status 0 exactly when at least one
\* document was processed and nothing after the processing loop failed
\* (descriptors may have been skipped), and with exit status 1 otherwise, in
\* particular when the precheck fails or no document is processed.
C5_ExitStatus ==
    \A s \in runs : (s = "new_script" /\ Done(s)) =>
        /\ st[s].exit_status \in {0, 1}
        /\ st[s].exit_status = 0 <=>
              (st[s].processed_pdfs # <<>> /\ NoFatalCall(s))
        /\ st[s].calls[1] = <<"verify_poppler_setup", <<>>, FALSE>> =>
              st[s].exit_status = 1
        /\ st[s].processed_pdfs = <<>> => st[s].exit_status = 1

\* Partial success: one of two descriptors was skipped and the run ended
\* with status 0.
C5_Witness ==
    /\ "new_script" \in runs
    /\ Done("new_script")
    /\ st["new_script"].exit_status = 0
    /\ Len(SAMPLE_PDFS) = 2
    /\ Len(st["new_script"].processed_pdfs) = 1

\* C6: the driver of main.py, too, skips a descriptor whose extraction or
\* embedding raises and is not ended by it: every descriptor is attempted
\* and the documents of those that succeeded are processed.
C6_MainSkipsFailedPdf ==
    \A s \in runs : s = "main" =>
        /\ st[s].processed_pdfs = DocsOf(Attempted(s))
        /\ (Done(s) /\ st[s].i >= 1) => LoopEnded(s)

\* The query embedding returned a list with a first element.
IsUsableQueryEmbedding(c) ==
    IsQueryEmbedding(c) /\ ~Ret(c).raised /\ Ret(c).vectors # <<>>

\* C7: both drivers embed the query at most once and call search at most
\* once (no retry); search is called right after a query embedding that
\* returned, and only then, with the fixed query string and the first
\* element of the returned list; a run that ends with status 0 has called
\* it exactly once; and a failure of the query embedding or of search is
\* the last call and leaves main as an error.
C7_SampleSearch ==
    \A s \in runs :
        LET calls == st[s].calls
        IN /\ Len(SelectSeq(calls, IsQueryEmbedding)) <= 1
           /\ Len(CallsOf(s, {"search"})) <= 1
           /\ \A k \in 1..Len(calls) :
                 Op(calls[k]) = "search" =>
                    /\ k > 1
                    /\ IsUsableQueryEmbedding(calls[k - 1])
                    /\ Arg(calls[k])[1] = query
                    /\ Arg(calls[k])[2] = Ret(calls[k - 1]).vectors[1]
                    /\ Len(Arg(calls[k])) = 2
           /\ \A k \in 1..Len(calls) :
                 IsUsableQueryEmbedding(calls[k]) =>
                    IF k = Len(calls) THEN st[s].pc = "search"
                    ELSE Op(calls[k + 1]) = "search"
           /\ \A k \in 1..Len(calls) :
                 (\/ IsQueryEmbedding(calls[k]) /\ ~IsUsableQueryEmbedding(calls[k])
                  \/ Op(calls[k]) = "search" /\ ~Ret(calls[k])) =>
                    /\ k = Len(calls)
                    /\ Done(s) /\ st[s].raised /\ st[s].exit_status = 1
           /\ (Done(s) /\ st[s].exit_status = 0) =>
                 Len(CallsOf(s, {"search"})) = 1

\* A run has called search, with the embedding of the query, and returned.
C7_Witness ==
    \E s \in runs :
        /\ Done(s) /\ st[s].exit_status = 0
        /\ st[s].processed_pdfs # <<>>
        /\ LET c == st[s].calls[Len(st[s].calls)]
           IN Op(c) = "search"
              /\ Arg(c) = <<query, env.query_embed[query].vectors[1]>>

WorkOps ==
    {"get_pdf_images", "generate_embeddings", "prepare_document",
     "index_documents", "search"}

\* C8: in both drivers, when verify_poppler_setup returns false it is the
\* only call of the run, which ends with exit status 1; when deploy raises
\* it is the last call and no extraction, embedding, indexing or search call
\* is made; and no such call is ever made before the precheck returned true
\* and deploy returned.
C8_NoWorkBeforeSetup ==
    \A s \in runs :
        LET calls == st[s].calls
        IN \A k \in 1..Len(calls) :
              /\ (Op(calls[k]) = "verify_poppler_setup" /\ ~Ret(calls[k])) =>
                    /\ Len(calls) = 1
                    /\ Done(s) /\ st[s].exit_status = 1
              /\ (Op(calls[k]) = "deploy" /\ ~Ret(calls[k])) =>
                    /\ k = Len(calls)
                    /\ Done(s) /\ st[s].raised /\ st[s].exit_status = 1
                    /\ \A m \in 1..Len(calls) : Op(calls[m]) \notin WorkOps
              /\ Op(calls[k]) \in WorkOps \cup {"handlers", "deploy"} =>
                    Op(calls[1]) = "verify_poppler_setup" /\ Ret(calls[1])
              /\ Op(calls[k]) \in WorkOps =>
                    \E m \in 1..(k - 1) : Op(calls[m]) = "deploy" /\ Ret(calls[m])

\* The precheck of a run failed.
C8_Witness ==
    \E s \in runs :
        /\ Done(s)
        /\ st[s].calls = <<<<"verify_poppler_setup", <<>>, FALSE>>>>
        /\ Len(SAMPLE_PDFS) > 0

IndexOps == {"prepare_document", "index_documents"}

\* The indexing calls for docs when none raises: each document prepared,
\* then submitted alone.
ExpectedIndexCalls(docs) ==
    [m \in 1..(2 * Len(docs)) |->
        IF m % 2 = 1
        THEN <<"prepare_document", docs[(m + 1) \div 2], TRUE>>
        ELSE <<"index_documents", <<VespaDoc(docs[m \div 2])>>, TRUE>>]

NoIndexFailure(s) ==
    \A k \in 1..Len(st[s].calls) : ~IsIndexFailure(st[s].calls[k])

\* The indexing loop has gone through every processed document.
IndexingEnded(s) ==
    /\ LoopEnded(s)
    /\ NoIndexFailure(s)
    /\ st[s].pc \in {"query_embed", "search", "done"}

\* C9: in both drivers, while no indexing call has raised, the indexing
\* calls made are the processed documents in order, each prepared once and
\* then submitted once by a call carrying that document alone, and none is
\* made before get_pdf_images was called for every descriptor; when the
\* indexing loop has ended there is one index_documents call per processed
\* document and the index holds exactly these documents, in order.
C9_OneSubmissionPerDocument ==
    \A s \in runs :
        LET calls == st[s].calls
            made == CallsOf(s, IndexOps)
            expected == ExpectedIndexCalls(st[s].processed_pdfs)
        IN /\ NoIndexFailure(s) =>
                /\ Len(made) <= Len(expected)
                /\ \A m \in 1..Len(made) :
                      /\ Op(made[m]) = Op(expected[m])
                      /\ Arg(made[m]) = Arg(expected[m])
           /\ \A k \in 1..Len(calls) :
                 Op(calls[k]) \in IndexOps =>
                    Len(SelectSeq(SubSeq(calls, 1, k - 1),
                                  LAMBDA c : Op(c) = "get_pdf_images"))
                        = Len(SAMPLE_PDFS)
           /\ IndexingEnded(s) =>
                /\ Len(CallsOf(s, {"index_documents"})) = Len(st[s].processed_pdfs)
                /\ Len(CallsOf(s, {"prepare_document"})) = Len(st[s].processed_pdfs)
                /\ st[s].indexed = VespaDocs(s, Len(st[s].processed_pdfs))

\* A run has indexed two documents.
C9_Witness ==
    \E s \in runs :
        /\ IndexingEnded(s)
        /\ Len(st[s].processed_pdfs) = 2
        /\ Len(st[s].indexed) = 2

\* No collaborator call of the run raised, and the precheck passed.
FailureFree(s) ==
    \A k \in 1..Len(st[s].calls) :
        LET c == st[s].calls[k]
        IN IF Op(c) \in {"get_pdf_images", "generate_embeddings"}
           THEN ~Ret(c).raised
           ELSE Ret(c)

SameCall(a, b) == Op(a) = Op(b) /\ Arg(a) = Arg(b) /\ Ret(a) = Ret(b)

\* The calls of a are the first calls of b.
IsPrefix(a, b) ==
    /\ Len(a) <= Len(b)
    /\ \A k \in 1..Len(a) : SameCall(a[k], b[k])

\* C10: run against the same collaborators with a non-empty descriptor
\* list, main.py and new_script.py make the same calls with the same
\* arguments for as long as no call raises: the calls of one are the first
\* calls of the other, and when both have ended their calls, indexed
\* documents and exit status are the same.
C10_DriversAgree ==
    (/\ runs = Scripts
     /\ Len(SAMPLE_PDFS) >= 1
     /\ FailureFree("main") /\ FailureFree("new_script")) =>
        /\ \/ IsPrefix(st["main"].calls, st["new_script"].calls)
           \/ IsPrefix(st["new_script"].calls, st["main"].calls)
        /\ (Done("main") /\ Done("new_script")) =>
              /\ Len(st["main"].calls) = Len(st["new_script"].calls)
              /\ st["main"].indexed = st["new_script"].indexed
              /\ st["main"].exit_status = st["new_script"].exit_status

\* Both drivers have run to the end of a failure-free run that indexed a
\* document and searched.
C10_Witness ==
    /\ runs = Scripts
    /\ Done("main") /\ Done("new_script")
    /\ FailureFree("main") /\ FailureFree("new_script")
    /\ st["main"].exit_status = 0
    /\ Len(st["main"].indexed) >= 1
    /\ st["new_script"].exit_status = 0
    /\ Len(st["new_script"].indexed) >= 1

====
